---- MODULE Spec2Model ----
(***************************************************************************)
(* Model of mistralrs-server/src/chat_completion.rs: the chat-completion   *)
(* handler `chatcompletions`, the request translator `parse_request`, the  *)
(* SSE bridge `Streamer::poll_next` and the responder `into_response`,     *)
(* for one HTTP request and its dedicated response channel.                *)
(*                                                                         *)
(* Option<T> values are modelled as sequences: <<>> is None, <<v>> is      *)
(* Some(v).                                                                *)
(***************************************************************************)
EXTENDS Integers, Sequences, FiniteSets, TLC

\* ------------------------------------------------------------------ bounds
\* Most messages the engine writes on one response channel.
MaxMsgs == 3
\* Most choices carried by one chunk.
MaxChoices == 2
\* Capacity handed to channel(..) in chatcompletions.  The program passes
\* 10_000 (chat_completion.rs:223); the model is parametric in the value and
\* is checked with a small one so that a full channel is reachable.
ChannelCapacity == 2
\* Most stop sequences in the list of one request.
MaxStops == 2

VARIABLES
    oairequest,  \* the ChatCompletionRequest of this call
    queueOpen,   \* engine's inbound queue still has its receiver
    pc,          \* position of the handler / life of the response
    chan,        \* the response channel: [buf, cap]
    txAlive,     \* a Sender<Response> of the channel still exists
    rxAlive,     \* the Receiver<Response> of the channel still exists
    request,     \* the internal request the engine received, as Option
    pending,     \* engine's send suspended on a full channel, as Option
    sendFailed,  \* an engine send returned Err
    written,     \* history: messages the engine put on the channel
    consumed,    \* number of messages taken off the channel
    recvCalls,   \* number of rx.recv() calls made by the handler
    is_done,     \* Streamer.is_done
    lastPoll,    \* what the last poll_next call returned
    task,        \* the response task: runnable or parked
    rxWaker,     \* a waker is registered with the channel's receiver
    events,      \* items yielded by the Streamer, in order
    log,         \* calls of the MistralRs::maybe_log_* hooks, in order
    responder    \* the ChatCompletionResponder returned, as Option

vars == <<oairequest, queueOpen, pc, chan, txAlive, rxAlive, request, pending,
          sendFailed, written, consumed, recvCalls, is_done, lastPoll, task,
          rxWaker, events, log, responder>>

\* ------------------------------------------------------------ Option<T>
None == <<>>
Some(v) == <<v>>
is_some(o) == o # <<>>
unwrap_or(o, d) == IF o = <<>> THEN d ELSE o[1]

\* --------------------------------------------------------------- Response
\* finish_reason: Option<String> of one choice
FinishReasons == {None, Some("stop")}

RECURSIVE SeqsUpTo(_, _)
SeqsUpTo(S, n) ==
    IF n = 0 THEN {<<>>}
    ELSE LET shorter == SeqsUpTo(S, n - 1)
         IN  shorter \cup {Append(s, x) : s \in {t \in shorter : Len(t) = n - 1}, x \in S}

\* choices of a ChatCompletionChunkResponse: each a finish_reason
ChoiceLists == SeqsUpTo(FinishReasons, MaxChoices)

\* The variants of mistralrs_core::Response matched in poll_next and in
\* chatcompletions.  `choices` is the payload's choice list for Chunk and is
\* empty for the variants whose payload the bridge does not inspect.
ResponseKinds == {"Chunk", "Done", "ModelError", "ValidationError",
                  "InternalError", "CompletionDone", "CompletionModelError"}

Responses ==
    [kind : {"Chunk"}, choices : ChoiceLists]
      \cup [kind : ResponseKinds \ {"Chunk"}, choices : {<<>>}]

\* a message as it sits on the channel: the response and its serial number
Msg(r, n) == [kind |-> r.kind, choices |-> r.choices, id |-> n]

\* ---------------------------------------------------------------- channel
\* variant: an unbounded channel is created instead
channel_unbounded(n) == [buf |-> <<>>, cap |-> MaxMsgs + 1]

\* tokio::sync::mpsc::channel(n): an empty bounded buffer of capacity n
channel(n) == [buf |-> <<>>, cap |-> n]

NoChannel == [buf |-> <<>>, cap |-> 0]

\* Receiver::try_recv: Ok(head) when a message is buffered, otherwise
\* Err(Empty) while a sender exists and Err(Disconnected) when none does
try_recv(c, senders) ==
    IF c.buf = <<>>
    THEN [ok |-> FALSE, err |-> IF senders THEN "Empty" ELSE "Disconnected"]
    ELSE [ok |-> TRUE, resp |-> Head(c.buf), rest |-> [c EXCEPT !.buf = Tail(c.buf)]]

\* ---------------------------------------------------------- parse_request
\* texts of stop sequences and of grammars
StopStrings == {"a", "b"}
GrammarTexts == {"p", "q"}

\* openai::StopTokens
StopTokens ==
    [tag : {"Single"}, val : StopStrings]
      \cup [tag : {"Multi"}, val : SeqsUpTo(StopStrings, MaxStops)]

\* openai::Grammar
Grammar == [tag : {"Regex", "Yacc"}, val : GrammarTexts]

\* the fields of openai::ChatCompletionRequest that parse_request branches on
ChatCompletionRequests ==
    [stream : {None, Some(TRUE), Some(FALSE)},
     stop_seqs : {None} \cup {Some(t) : t \in StopTokens},
     grammar : {None} \cup {Some(g) : g \in Grammar}]

\* requests without stop sequences and grammar
PlainRequests ==
    {r \in ChatCompletionRequests : r.stop_seqs = None /\ r.grammar = None}

\* variant: the Single arm yields an empty list
stop_toks_of_single_lost(stop_seqs) ==
    IF stop_seqs = None THEN None
    ELSE IF stop_seqs[1].tag = "Multi"
    THEN Some([tag |-> "Seqs", val |-> stop_seqs[1].val])
    ELSE Some([tag |-> "Seqs", val |-> <<>>])

\* lines 154-158: `let stop_toks = match oairequest.stop_seqs`
stop_toks_of(stop_seqs) ==
    IF stop_seqs = None THEN None
    ELSE IF stop_seqs[1].tag = "Multi"
    THEN Some([tag |-> "Seqs", val |-> stop_seqs[1].val])
    ELSE Some([tag |-> "Seqs", val |-> <<stop_seqs[1].val>>])

\* variant: the Yacc and Regex arms are swapped
constraint_of_swapped(grammar) ==
    IF grammar = None THEN [tag |-> "None", val |-> ""]
    ELSE IF grammar[1].tag = "Yacc"
    THEN [tag |-> "Regex", val |-> grammar[1].val]
    ELSE [tag |-> "Yacc", val |-> grammar[1].val]

\* lines 201-205: `constraint: match oairequest.grammar`
constraint_of(grammar) ==
    IF grammar = None THEN [tag |-> "None", val |-> ""]
    ELSE IF grammar[1].tag = "Yacc"
    THEN [tag |-> "Yacc", val |-> grammar[1].val]
    ELSE [tag |-> "Regex", val |-> grammar[1].val]

\* variant: the request is marked streaming whenever `stream` is present
parse_request_flag_present(req) ==
    LET is_streaming == unwrap_or(req.stream, FALSE)
    IN  [request |-> [sampling_params |-> [stop_toks |-> stop_toks_of(req.stop_seqs)],
                      is_streaming |-> is_some(req.stream),
                      constraint |-> constraint_of(req.grammar)],
         is_streaming |-> is_streaming]

\* lines 146-210: the internal request and the streaming flag
parse_request(req) ==
    LET is_streaming == unwrap_or(req.stream, FALSE)
    IN  [request |-> [sampling_params |-> [stop_toks |-> stop_toks_of(req.stop_seqs)],
                      is_streaming |-> is_streaming,
                      constraint |-> constraint_of(req.grammar)],
         is_streaming |-> is_streaming]

\* ------------------------------------------------------------ log hooks
LogEntry(hook, src, n) == [hook |-> hook, src |-> src, of |-> n]

maybe_log_request == LogEntry("request", "request", 0)
maybe_log_error(src, n) == LogEntry("error", src, n)
maybe_log_response(n) == LogEntry("response", "msg", n)

\* ------------------------------------------------------------- Streamer
\* Event::default().data(text) / .json_data(response)
Event_data(n) == [fmt |-> "text", of |-> n]
Event_json_data(n) == [fmt |-> "json", of |-> n]

\* variant: a chunk without choices is not a final chunk
all_finished_nonempty(choices) ==
    choices # <<>> /\ \A i \in 1..Len(choices) : is_some(choices[i])

\* variant: any(..) in place of all(..)
any_finished(choices) == \E i \in 1..Len(choices) : is_some(choices[i])

\* response.choices.iter().all(|x| x.finish_reason.is_some())
all_finished(choices) == \A i \in 1..Len(choices) : is_some(choices[i])

\* variant: a disconnected channel ends the stream
poll_err_disconnected_ends(err) ==
    IF err = "Disconnected" THEN "ReadyNone" ELSE "Pending"

\* line 77: `Err(_) => Poll::Pending`, for TryRecvError::Empty and
\* TryRecvError::Disconnected alike
poll_err(err) == "Pending"

\* variant: the InternalError arm is unreachable!() too
PollUnreachable_with_internal ==
    {"Done", "CompletionDone", "CompletionModelError", "InternalError"}

\* the arms of `match resp` in poll_next that do not abort
PollUnreachable == {"Done", "CompletionDone", "CompletionModelError"}

\* variant: the InternalError arm ends the stream too
poll_is_done_on_internal(resp, done) ==
    IF resp.kind = "InternalError" THEN TRUE
    ELSE IF resp.kind = "Chunk" /\ all_finished(resp.choices) THEN TRUE ELSE done

\* value of self.is_done after the arm for resp ran
poll_is_done(resp, done) ==
    IF resp.kind = "Chunk" /\ all_finished(resp.choices) THEN TRUE ELSE done

\* variant: the Chunk arm does not call maybe_log_response
poll_log_no_response(resp) ==
    CASE resp.kind = "ModelError" -> <<maybe_log_error("msg", resp.id)>>
      [] resp.kind = "InternalError" -> <<maybe_log_error("msg", resp.id)>>
      [] OTHER -> <<>>

\* hook calls made by the arm for resp
poll_log(resp) ==
    CASE resp.kind = "ModelError" -> <<maybe_log_error("msg", resp.id)>>
      [] resp.kind = "InternalError" -> <<maybe_log_error("msg", resp.id)>>
      [] resp.kind = "Chunk" -> <<maybe_log_response(resp.id)>>
      [] OTHER -> <<>>

\* variant: the ValidationError arm swallows the message
poll_item_skip_validation(resp) ==
    CASE resp.kind = "ModelError" -> <<Event_data(resp.id)>>
      [] resp.kind = "InternalError" -> <<Event_data(resp.id)>>
      [] resp.kind = "Chunk" -> <<Event_json_data(resp.id)>>
      [] OTHER -> <<>>

\* item yielded by the arm for resp
poll_item(resp) ==
    CASE resp.kind = "ModelError" -> <<Event_data(resp.id)>>
      [] resp.kind = "ValidationError" -> <<Event_data(resp.id)>>
      [] resp.kind = "InternalError" -> <<Event_data(resp.id)>>
      [] resp.kind = "Chunk" -> <<Event_json_data(resp.id)>>
      [] OTHER -> <<>>

\* ------------------------------------------------ ChatCompletionResponder
Responder(kind, n) == [kind |-> kind, of |-> n]

\* variant: ValidationError answered with BAD_REQUEST
into_response_bad_request(r) ==
    CASE r.kind = "Sse" -> [status |-> 200, body |-> "event-stream"]
      [] r.kind = "Json" -> [status |-> 200, body |-> "result"]
      [] r.kind = "InternalError" -> [status |-> 500, body |-> "message"]
      [] r.kind = "ValidationError" -> [status |-> 400, body |-> "message"]
      [] r.kind = "ModelError" -> [status |-> 500, body |-> "message+partial_response"]

\* IntoResponse for ChatCompletionResponder: the HTTP status and body shape
into_response(r) ==
    CASE r.kind = "Sse" -> [status |-> 200, body |-> "event-stream"]
      [] r.kind = "Json" -> [status |-> 200, body |-> "result"]
      [] r.kind = "InternalError" -> [status |-> 500, body |-> "message"]
      [] r.kind = "ValidationError" -> [status |-> 422, body |-> "message"]
      [] r.kind = "ModelError" -> [status |-> 500, body |-> "message+partial_response"]

\* the arms of `match response` in chatcompletions that do not abort
RecvUnreachable == {"Chunk", "CompletionDone", "CompletionModelError"}

\* variant: the ValidationError arm calls maybe_log_error
recv_log_validation(resp) ==
    CASE resp.kind = "InternalError" -> <<maybe_log_error("msg", resp.id)>>
      [] resp.kind = "ModelError" ->
             <<maybe_log_error("msg", resp.id), maybe_log_response(resp.id)>>
      [] resp.kind = "ValidationError" -> <<maybe_log_error("msg", resp.id)>>
      [] resp.kind = "Done" -> <<maybe_log_response(resp.id)>>
      [] OTHER -> <<>>

\* hook calls made by the arms of `match response` in chatcompletions
recv_log(resp) ==
    CASE resp.kind = "InternalError" -> <<maybe_log_error("msg", resp.id)>>
      [] resp.kind = "ModelError" ->
             <<maybe_log_error("msg", resp.id), maybe_log_response(resp.id)>>
      [] resp.kind = "Done" -> <<maybe_log_response(resp.id)>>
      [] OTHER -> <<>>

recv_responder(resp) ==
    CASE resp.kind = "InternalError" -> Responder("InternalError", resp.id)
      [] resp.kind = "ModelError" -> Responder("ModelError", resp.id)
      [] resp.kind = "ValidationError" -> Responder("ValidationError", resp.id)
      [] resp.kind = "Done" -> Responder("Json", resp.id)

\* ------------------------------------------------------------------ Init
Start ==
    /\ queueOpen \in BOOLEAN
    /\ pc = "start"
    /\ chan = NoChannel
    /\ txAlive = FALSE
    /\ rxAlive = FALSE
    /\ request = None
    /\ pending = None
    /\ sendFailed = FALSE
    /\ written = <<>>
    /\ consumed = 0
    /\ recvCalls = 0
    /\ is_done = FALSE
    /\ lastPoll = "NotPolled"
    /\ task = "runnable"
    /\ rxWaker = FALSE
    /\ events = <<>>
    /\ log = <<>>
    /\ responder = None

\* a call with a request that carries no stop sequences and no grammar
Init ==
    /\ oairequest \in PlainRequests
    /\ Start

\* a call with any request
InitAnyRequest ==
    /\ oairequest \in ChatCompletionRequests
    /\ Start

\* --------------------------------------------------------- chatcompletions
\* variant: the failed submission is returned without being logged
chatcompletions_submit_err_unlogged ==
    /\ pc = "start"
    /\ ~queueOpen
    /\ pc' = "returned"
    /\ chan' = channel(ChannelCapacity)
    /\ log' = Append(log, maybe_log_request)
    /\ responder' = Some(Responder("InternalError", 0))
    /\ UNCHANGED <<oairequest, queueOpen, txAlive, rxAlive, request, pending,
                   sendFailed, written, consumed, recvCalls, is_done, lastPoll,
                   task, rxWaker, events>>

\* lines 223-231: channel, parse_request, sender.send(request) fails
chatcompletions_submit_err ==
    /\ pc = "start"
    /\ ~queueOpen
    /\ pc' = "returned"
    /\ chan' = channel(ChannelCapacity)
    /\ log' = log \o <<maybe_log_request, maybe_log_error("submit", 0)>>
    /\ responder' = Some(Responder("InternalError", 0))
    /\ UNCHANGED <<oairequest, queueOpen, txAlive, rxAlive, request, pending,
                   sendFailed, written, consumed, recvCalls, is_done, lastPoll,
                   task, rxWaker, events>>

\* lines 223-250: channel, parse_request, sender.send(request) succeeds; the
\* streaming request gets its Streamer and the Sse responder
chatcompletions_submit_ok ==
    /\ pc = "start"
    /\ queueOpen
    /\ LET parsed == parse_request(oairequest)
       IN  /\ request' = Some(parsed.request)
           /\ IF parsed.is_streaming
              THEN /\ pc' = "streaming"
                   /\ responder' = Some(Responder("Sse", 0))
              ELSE /\ pc' = "recv"
                   /\ responder' = responder
    /\ chan' = channel(ChannelCapacity)
    /\ txAlive' = TRUE
    /\ rxAlive' = TRUE
    /\ is_done' = FALSE
    /\ log' = Append(log, maybe_log_request)
    /\ UNCHANGED <<oairequest, queueOpen, pending, sendFailed, written,
                   consumed, recvCalls, lastPoll, task, rxWaker, events>>

\* variant: rx.recv().await.unwrap()
chatcompletions_recv_none_unwrap ==
    /\ pc = "recv"
    /\ chan.buf = <<>>
    /\ ~txAlive
    /\ recvCalls' = recvCalls + 1
    /\ pc' = "panicked"
    /\ rxAlive' = FALSE
    /\ UNCHANGED <<oairequest, queueOpen, chan, txAlive, request, pending,
                   sendFailed, written, consumed, is_done, lastPoll, task,
                   rxWaker, events, log, responder>>

\* lines 252-259: rx.recv().await returns None, all senders gone and nothing
\* buffered
chatcompletions_recv_none ==
    /\ pc = "recv"
    /\ chan.buf = <<>>
    /\ ~txAlive
    /\ recvCalls' = recvCalls + 1
    /\ log' = Append(log, maybe_log_error("norecv", 0))
    /\ responder' = Some(Responder("InternalError", 0))
    /\ pc' = "returned"
    /\ rxAlive' = FALSE
    /\ UNCHANGED <<oairequest, queueOpen, chan, txAlive, request, pending,
                   sendFailed, written, consumed, is_done, lastPoll, task,
                   rxWaker, events>>

\* lines 252-280: rx.recv().await returns Some(response); the handler
\* returns (dropping rx with whatever is still buffered) or aborts
chatcompletions_recv_some ==
    /\ pc = "recv"
    /\ chan.buf # <<>>
    /\ LET resp == Head(chan.buf)
       IN  /\ IF resp.kind \in RecvUnreachable
              THEN /\ pc' = "panicked"
                   /\ UNCHANGED <<log, responder>>
              ELSE /\ pc' = "returned"
                   /\ log' = log \o recv_log(resp)
                   /\ responder' = Some(recv_responder(resp))
    /\ recvCalls' = recvCalls + 1
    /\ consumed' = consumed + 1
    /\ chan' = [chan EXCEPT !.buf = <<>>]
    /\ rxAlive' = FALSE
    /\ UNCHANGED <<oairequest, queueOpen, txAlive, request, pending,
                   sendFailed, written, is_done, lastPoll, task, rxWaker,
                   events>>

\* ------------------------------------------------------ Streamer::poll_next
\* variant: poll_next without the `if self.is_done` return
poll_next_unguarded ==
    /\ pc = "streaming"
    /\ task = "runnable"
    /\ LET r == try_recv(chan, txAlive)
       IN  IF ~r.ok
           THEN /\ lastPoll' = poll_err(r.err)
                /\ task' = IF lastPoll' = "Pending" THEN "parked" ELSE task
                /\ UNCHANGED <<pc, chan, rxAlive, consumed, is_done, events, log>>
           ELSE IF r.resp.kind \in PollUnreachable
           THEN /\ pc' = "panicked"
                /\ chan' = [chan EXCEPT !.buf = <<>>]
                /\ rxAlive' = FALSE
                /\ consumed' = consumed + 1
                /\ UNCHANGED <<is_done, lastPoll, task, events, log>>
           ELSE /\ chan' = r.rest
                /\ consumed' = consumed + 1
                /\ is_done' = poll_is_done(r.resp, is_done)
                /\ log' = log \o poll_log(r.resp)
                /\ events' = events \o poll_item(r.resp)
                /\ lastPoll' = "ReadySome"
                /\ UNCHANGED <<pc, rxAlive, task>>
    /\ UNCHANGED <<oairequest, queueOpen, txAlive, request, pending,
                   sendFailed, written, recvCalls, rxWaker, responder>>

\* ------------------------------------------------------ Streamer::poll_next
poll_next ==
    /\ pc = "streaming"
    /\ task = "runnable"
    /\ IF is_done
       THEN /\ lastPoll' = "ReadyNone"
            /\ UNCHANGED <<pc, chan, rxAlive, consumed, is_done, task, events, log>>
       ELSE LET r == try_recv(chan, txAlive)
            IN  IF ~r.ok
                THEN /\ lastPoll' = poll_err(r.err)
                     /\ task' = IF lastPoll' = "Pending" THEN "parked" ELSE task
                     /\ UNCHANGED <<pc, chan, rxAlive, consumed, is_done, events, log>>
                ELSE IF r.resp.kind \in PollUnreachable
                THEN /\ pc' = "panicked"
                     /\ chan' = [chan EXCEPT !.buf = <<>>]
                     /\ rxAlive' = FALSE
                     /\ consumed' = consumed + 1
                     /\ UNCHANGED <<is_done, lastPoll, task, events, log>>
                ELSE /\ chan' = r.rest
                     /\ consumed' = consumed + 1
                     /\ is_done' = poll_is_done(r.resp, is_done)
                     /\ log' = log \o poll_log(r.resp)
                     /\ events' = events \o poll_item(r.resp)
                     /\ lastPoll' = "ReadySome"
                     /\ UNCHANGED <<pc, rxAlive, task>>
    /\ UNCHANGED <<oairequest, queueOpen, txAlive, request, pending,
                   sendFailed, written, recvCalls, rxWaker, responder>>

\* lines 241-249: the Sse keep-alive timer fires and the transport polls the
\* response body, and with it the Streamer, again
keep_alive ==
    /\ pc = "streaming"
    /\ task = "parked"
    /\ task' = "runnable"
    /\ UNCHANGED <<oairequest, queueOpen, pc, chan, txAlive, rxAlive, request,
                   pending, sendFailed, written, consumed, recvCalls, is_done,
                   lastPoll, rxWaker, events, log, responder>>

\* variant: the receiver outlives the dropped Streamer
drop_streamer_keeps_rx ==
    /\ pc = "streaming"
    /\ pc' = "closed"
    /\ UNCHANGED <<oairequest, queueOpen, chan, txAlive, rxAlive, request,
                   pending, sendFailed, written, consumed, recvCalls, is_done,
                   lastPoll, task, rxWaker, events, log, responder>>

\* the transport drops the Sse response, and with it the Streamer and its rx
\* (client disconnect, or the stream was exhausted)
drop_streamer ==
    /\ pc = "streaming"
    /\ pc' = "closed"
    /\ rxAlive' = FALSE
    /\ chan' = [chan EXCEPT !.buf = <<>>]
    /\ rxWaker' = FALSE
    /\ UNCHANGED <<oairequest, queueOpen, txAlive, request, pending,
                   sendFailed, written, consumed, recvCalls, is_done, lastPoll,
                   task, events, log, responder>>

\* ------------------------------------------------------------------ engine
\* the engine owns request.response (the Sender) and calls send(resp).await
Enqueue(r) ==
    /\ chan' = [chan EXCEPT !.buf = Append(@, Msg(r, Len(written) + 1))]
    /\ written' = Append(written, Msg(r, Len(written) + 1))
    /\ IF rxWaker
       THEN task' = "runnable" /\ rxWaker' = FALSE
       ELSE UNCHANGED <<task, rxWaker>>

engine_send ==
    /\ is_some(request)
    /\ txAlive
    /\ pending = None
    /\ Len(written) < MaxMsgs
    /\ \E r \in Responses :
         IF ~rxAlive
         THEN /\ sendFailed' = TRUE
              /\ UNCHANGED <<chan, written, task, rxWaker, pending>>
         ELSE IF Len(chan.buf) < chan.cap
         THEN /\ Enqueue(r)
              /\ UNCHANGED <<pending, sendFailed>>
         ELSE /\ pending' = Some(r)
              /\ UNCHANGED <<chan, written, task, rxWaker, sendFailed>>
    /\ UNCHANGED <<oairequest, queueOpen, pc, txAlive, rxAlive, request,
                   consumed, recvCalls, is_done, lastPoll, events, log,
                   responder>>

\* a suspended send completes once the receiver made room, or fails once the
\* receiver is gone
engine_send_resume ==
    /\ is_some(pending)
    /\ IF ~rxAlive
       THEN /\ sendFailed' = TRUE
            /\ UNCHANGED <<chan, written, task, rxWaker>>
       ELSE /\ Len(chan.buf) < chan.cap
            /\ Enqueue(pending[1])
            /\ UNCHANGED sendFailed
    /\ pending' = None
    /\ UNCHANGED <<oairequest, queueOpen, pc, txAlive, rxAlive, request,
                   consumed, recvCalls, is_done, lastPoll, events, log,
                   responder>>

\* the engine drops the request and with it the channel's only Sender
engine_drop_sender ==
    /\ txAlive
    /\ pending = None
    /\ txAlive' = FALSE
    /\ UNCHANGED <<oairequest, queueOpen, pc, chan, rxAlive, request, pending,
                   sendFailed, written, consumed, recvCalls, is_done, lastPoll,
                   task, rxWaker, events, log, responder>>

Next ==
    \/ chatcompletions_submit_err
    \/ chatcompletions_submit_ok
    \/ chatcompletions_recv_none
    \/ chatcompletions_recv_some
    \/ poll_next
    \/ keep_alive
    \/ drop_streamer
    \/ engine_send
    \/ engine_send_resume
    \/ engine_drop_sender

Spec == Init /\ [][Next]_vars

\* the handler up to its first await, on any request
NextSubmit ==
    \/ chatcompletions_submit_err
    \/ chatcompletions_submit_ok

SpecParse == InitAnyRequest /\ [][NextSubmit]_vars

\* ================================================================ claims
\* vocabulary of the claims, stated on the history of written messages
Streaming == is_some(request) /\ request[1].is_streaming
NonStreaming == is_some(request) /\ ~request[1].is_streaming
EveryChoiceFinished(m) == \A i \in DOMAIN m.choices : m.choices[i] # <<>>
FinalChunk(m) == m.kind = "Chunk" /\ EveryChoiceFinished(m)
EmittedKind(i) == written[events[i].of].kind
Status == into_response(responder[1]).status
ErrorLogs == SelectSeq(log, LAMBDA l : l.hook = "error")

\* C1: when poll_next reads a chunk whose choices all carry a finish reason,
\* that chunk is emitted as an event and the bridge is done; once such a
\* chunk has been emitted no further event is emitted and no message is
\* read, and a poll reports end-of-sequence, whatever is still queued.
C1_FinalChunkRead ==
    /\ pc = "streaming"
    /\ consumed' = consumed + 1
    /\ FinalChunk(Head(chan.buf))

C1_FinalChunkEmitted ==
    \E i \in 1..Len(events) : FinalChunk(written[events[i].of])

C1_Step ==
    /\ C1_FinalChunkRead =>
         /\ events' = Append(events, [fmt |-> "json", of |-> Head(chan.buf).id])
         /\ is_done'
         /\ lastPoll' = "ReadySome"
    /\ C1_FinalChunkEmitted =>
         /\ events' = events
         /\ consumed' = consumed
         /\ lastPoll' # lastPoll => lastPoll' = "ReadyNone"

C1_FinalChunkEndsStream == [][C1_Step]_vars

C1_Witness ==
    /\ C1_FinalChunkEmitted
    /\ lastPoll = "ReadyNone"
    /\ chan.buf # <<>>
    /\ Len(events) >= 2

\* C2: a ModelError read by poll_next is the last event of the stream and
\* leaves the bridge Done.
C2_ModelErrorIsTerminal ==
    \A i \in 1..Len(events) :
        EmittedKind(i) = "ModelError" => (i = Len(events) /\ is_done)

\* C3: a ValidationError read by poll_next is the last event of the stream
\* and leaves the bridge Done.
C3_ValidationErrorIsTerminal ==
    \A i \in 1..Len(events) :
        EmittedKind(i) = "ValidationError" => (i = Len(events) /\ is_done)

\* C4: a submitted non-streaming request makes at most one receive; when the
\* handler has returned it made exactly one, took at most one message, and
\* the HTTP status and body are those of that message: Done 200 result,
\* ModelError 500 message and partial_response, ValidationError 422 message,
\* InternalError 500 message.
C4_Outcome(kind) ==
    CASE kind = "Done" -> [status |-> 200, body |-> "result"]
      [] kind = "ModelError" -> [status |-> 500, body |-> "message+partial_response"]
      [] kind = "ValidationError" -> [status |-> 422, body |-> "message"]
      [] kind = "InternalError" -> [status |-> 500, body |-> "message"]

C4_SingleReceiveDecidesStatus ==
    NonStreaming =>
        /\ recvCalls <= 1
        /\ consumed <= recvCalls
        /\ lastPoll = "NotPolled"
        /\ pc = "returned" =>
             /\ recvCalls = 1
             /\ consumed = 1 =>
                  /\ written[1].kind \in {"Done", "ModelError", "ValidationError", "InternalError"}
                  /\ responder[1].of = written[1].id
                  /\ into_response(responder[1]) = C4_Outcome(written[1].kind)

C4_Witness ==
    /\ NonStreaming
    /\ pc = "returned"
    /\ Len(written) = 2
    /\ written[1].kind = "ValidationError"
    /\ written[2].kind = "Done"
    /\ Status = 422

\* C5: whenever poll_next reported "not ready", a wake-up tied to the
\* channel's readiness is registered.
C5_PendingRegistersWake ==
    (pc = "streaming" /\ lastPoll = "Pending") => rxWaker

\* C6: when the submission fails the handler has returned the InternalError
\* outcome with status 500, logged exactly one error, made no read of the
\* response channel and created no Streamer, whatever the stream flag.
C6_SubmissionFailure ==
    (~queueOpen /\ pc # "start") =>
        /\ pc = "returned"
        /\ responder = <<[kind |-> "InternalError", of |-> 0]>>
        /\ Status = 500
        /\ ErrorLogs = <<[hook |-> "error", src |-> "submit", of |-> 0]>>
        /\ recvCalls = 0
        /\ consumed = 0
        /\ lastPoll = "NotPolled"
        /\ ~rxAlive
        /\ request = <<>>

C6_Witness ==
    /\ ~queueOpen
    /\ pc = "returned"
    /\ oairequest.stream = <<TRUE>>
    /\ Len(log) = 2

\* C7: on the non-streaming path, once the engine has dropped its sender
\* with nothing written, the receive can return; having returned without a
\* message the handler made one receive, logged exactly one error, the
\* synthesized one, and returned the InternalError outcome with status 500;
\* it did not abort.
C7_ClosedWithoutMessage ==
    /\ (pc = "recv" /\ ~txAlive /\ written = <<>>) =>
           ENABLED chatcompletions_recv_none
    /\ (NonStreaming /\ pc # "recv" /\ consumed = 0) =>
           /\ pc = "returned"
           /\ recvCalls = 1
           /\ responder = <<[kind |-> "InternalError", of |-> 0]>>
           /\ Status = 500
           /\ ErrorLogs = <<[hook |-> "error", src |-> "norecv", of |-> 0]>>

C7_Witness ==
    /\ NonStreaming
    /\ pc = "returned"
    /\ consumed = 0
    /\ ~txAlive

\* C8: on the streaming path the hook calls for chunks and model errors are,
\* in order, exactly the delivered chunks and model errors: each reported
\* once, a chunk to maybe_log_response and a model error to maybe_log_error.
C8_Logged(k) == k \in {"Chunk", "ModelError"}

C8_Delivered == SelectSeq(events, LAMBDA e : C8_Logged(written[e.of].kind))

C8_Hooks ==
    SelectSeq(log, LAMBDA l : l.src = "msg" /\ C8_Logged(written[l.of].kind))

C8_LoggedOnceInOrder ==
    Streaming =>
        /\ Len(C8_Hooks) = Len(C8_Delivered)
        /\ \A i \in 1..Len(C8_Delivered) :
             /\ C8_Hooks[i].of = C8_Delivered[i].of
             /\ C8_Hooks[i].hook =
                  (IF written[C8_Delivered[i].of].kind = "Chunk"
                   THEN "response" ELSE "error")

C8_Witness ==
    /\ Streaming
    /\ Len(events) = 3
    /\ EmittedKind(1) = "Chunk"
    /\ EmittedKind(2) = "ModelError"
    /\ EmittedKind(3) = "Chunk"

\* C9: on the streaming path the events are, in order, the events of the
\* first messages written: event i is the event of message i, one event per
\* message taken off the channel (none for the message an abort took), and
\* what is still buffered is the rest of what was written.
C9_EventOf(m) ==
    IF m.kind = "Chunk" THEN [fmt |-> "json", of |-> m.id]
    ELSE [fmt |-> "text", of |-> m.id]

C9_EventsArePrefix ==
    Streaming =>
        /\ consumed <= Len(written)
        /\ Len(events) = consumed - (IF pc = "panicked" THEN 1 ELSE 0)
        /\ \A i \in 1..Len(events) :
             /\ written[i].id = i
             /\ events[i] = C9_EventOf(written[i])
        /\ rxAlive => chan.buf = SubSeq(written, consumed + 1, Len(written))

C9_Witness ==
    /\ Streaming
    /\ Len(events) = 3
    /\ EmittedKind(1) = "ValidationError"
    /\ EmittedKind(2) = "Chunk"
    /\ EmittedKind(3) = "InternalError"

\* C10: the response channel never holds more than its capacity; while the
\* receiver exists every written message is either read or still buffered,
\* a send is suspended only on a full channel and writes nothing then, a
\* suspended send is written once there is room, and no send fails while the
\* receiver exists.
C10_Inv ==
    /\ Len(chan.buf) <= ChannelCapacity
    /\ rxAlive =>
         /\ chan.buf = SubSeq(written, consumed + 1, Len(written))
         /\ ~sendFailed

C10_Step ==
    /\ C10_Inv'
    /\ (pending = <<>> /\ pending' # <<>>) =>
         /\ rxAlive
         /\ Len(chan.buf) = ChannelCapacity
         /\ written' = written
    /\ (pending # <<>> /\ rxAlive /\ pending' # pending) =>
         /\ Len(chan.buf) < ChannelCapacity
         /\ Len(written') = Len(written) + 1
         /\ written'[Len(written')].kind = pending[1].kind
         /\ written'[Len(written')].choices = pending[1].choices

C10_Backpressure == [][C10_Step]_vars

C10_Witness ==
    /\ rxAlive
    /\ is_some(pending)
    /\ Len(chan.buf) = ChannelCapacity
    /\ Len(written) = ChannelCapacity

\* C11: the receiver exists only while the handler awaits its receive or the
\* Streamer lives; once it is dropped nothing is buffered any more, no send
\* writes a message or becomes suspended, a suspended send can complete and
\* does so by failing, and a failed send stays failed.
C11_Inv ==
    /\ rxAlive => pc \in {"recv", "streaming"}
    /\ pc \in {"returned", "closed", "panicked"} =>
         /\ ~rxAlive
         /\ chan.buf = <<>>
    /\ (~rxAlive /\ pending # <<>>) => ENABLED engine_send_resume

C11_Step ==
    (pc \in {"returned", "closed", "panicked"}) =>
        /\ written' = written
        /\ chan' = chan
        /\ ~rxAlive'
        /\ pending = <<>> => pending' = <<>>
        /\ pending' # pending => (pending' = <<>> /\ sendFailed')
        /\ sendFailed => sendFailed'

C11_Cancellation == [][C11_Inv /\ C11_Inv' /\ C11_Step]_vars

C11_Witness ==
    /\ pc = "closed"
    /\ sendFailed
    /\ pending = <<>>
    /\ Len(written) = ChannelCapacity
    /\ consumed = 0

\* C12: the Streamer aborts exactly when it reads Done, CompletionDone or
\* CompletionModelError, and then emits no event and calls no hook; the
\* non-streaming handler aborts exactly when it receives Chunk,
\* CompletionDone or CompletionModelError, and then produces no responder;
\* nothing but reading such a message aborts.
C12_Step ==
    /\ (pc = "streaming" /\ consumed' = consumed + 1) =>
         /\ pc' = "panicked" <=>
              Head(chan.buf).kind \in {"Done", "CompletionDone", "CompletionModelError"}
         /\ pc' = "panicked" => (events' = events /\ log' = log)
    /\ (pc = "recv" /\ consumed' = consumed + 1) =>
         /\ pc' = "panicked" <=>
              Head(chan.buf).kind \in {"Chunk", "CompletionDone", "CompletionModelError"}
         /\ pc' = "panicked" => (responder' = <<>> /\ log' = log)
    /\ (pc # "panicked" /\ pc' = "panicked") =>
         /\ pc \in {"streaming", "recv"}
         /\ consumed' = consumed + 1

C12_ProtocolViolationsAbort == [][C12_Step]_vars

C12_Witness ==
    /\ pc = "panicked"
    /\ Streaming
    /\ Len(events) = 2
    /\ consumed = 3
    /\ written[3].kind = "Done"
    /\ written[1].kind = "InternalError"

\* C13: taking a ValidationError off the response channel, in the Streamer
\* or in the non-streaming handler, leaves the sequence of hook calls as it
\* was.
C13_Step ==
    (/\ pc \in {"streaming", "recv"}
     /\ consumed' = consumed + 1
     /\ Head(chan.buf).kind = "ValidationError") => log' = log

C13_ValidationErrorNotLogged == [][C13_Step]_vars

C13_Witness ==
    /\ NonStreaming
    /\ pc = "returned"
    /\ consumed = 1
    /\ written[1].kind = "ValidationError"
    /\ Len(log) = 1

\* C14: the stop tokens of the internal request are absent when the request
\* has no stop value, the one-element list of the string when it has a
\* single string, and the same list, element for element, when it has a
\* list.
C14_StopSequences ==
    request # <<>> =>
        LET stop == oairequest.stop_seqs
            toks == request[1].sampling_params.stop_toks
        IN  /\ stop = <<>> => toks = <<>>
            /\ (stop # <<>> /\ stop[1].tag = "Single") =>
                 /\ toks # <<>>
                 /\ toks[1].tag = "Seqs"
                 /\ Len(toks[1].val) = 1
                 /\ toks[1].val[1] = stop[1].val
            /\ (stop # <<>> /\ stop[1].tag = "Multi") =>
                 /\ toks # <<>>
                 /\ toks[1].tag = "Seqs"
                 /\ Len(toks[1].val) = Len(stop[1].val)
                 /\ \A i \in 1..Len(stop[1].val) : toks[1].val[i] = stop[1].val[i]

C14_Witness ==
    /\ request # <<>>
    /\ oairequest.stop_seqs = <<[tag |-> "Single", val |-> "b"]>>
    /\ request[1].sampling_params.stop_toks = <<[tag |-> "Seqs", val |-> <<"b">>]>>

\* C15: the constraint of the internal request is Regex with the request's
\* pattern when the grammar is a regex, Yacc with the request's text when
\* the grammar is a yacc grammar, and None when the request has no grammar.
C15_Constraint ==
    request # <<>> =>
        LET grammar == oairequest.grammar
            constraint == request[1].constraint
        IN  /\ grammar = <<>> => constraint.tag = "None"
            /\ (grammar # <<>> /\ grammar[1].tag = "Regex") =>
                 (constraint.tag = "Regex" /\ constraint.val = grammar[1].val)
            /\ (grammar # <<>> /\ grammar[1].tag = "Yacc") =>
                 (constraint.tag = "Yacc" /\ constraint.val = grammar[1].val)

C15_Witness ==
    /\ request # <<>>
    /\ oairequest.grammar = <<[tag |-> "Regex", val |-> "q"]>>
    /\ request[1].constraint = [tag |-> "Regex", val |-> "q"]

\* C16: is_done is a flag that is false when the Streamer is created and
\* stays true once true; while it is true no step takes a message off the
\* channel, calls a hook or emits an event, and a poll can only report
\* end-of-sequence.
C16_Step ==
    /\ is_done' \in BOOLEAN
    /\ (pc = "start" /\ pc' = "streaming") => ~is_done'
    /\ pc # "streaming" => is_done' = is_done
    /\ is_done => is_done'
    /\ (pc = "streaming" /\ is_done) =>
         /\ consumed' = consumed
         /\ events' = events
         /\ log' = log
         /\ lastPoll' \in {lastPoll, "ReadyNone"}
         /\ pc' \in {"streaming", "closed"}

C16_ActiveThenDone == [][C16_Step]_vars

C16_Witness ==
    /\ pc = "streaming"
    /\ is_done
    /\ lastPoll = "ReadyNone"
    /\ consumed = 1
    /\ Len(chan.buf) = 2

\* C17: the internal request is marked streaming exactly when the handler
\* took the streaming branch (it returned the Sse responder and never calls
\* recv), which is exactly when the request's `stream` is true; a request
\* without `stream` is served by the single receive and is never polled.
C17_TookSse == responder # <<>> /\ responder[1].kind = "Sse"

C17_ModeConsistency ==
    request # <<>> =>
        /\ request[1].is_streaming <=> C17_TookSse
        /\ request[1].is_streaming <=> oairequest.stream = <<TRUE>>
        /\ C17_TookSse => (recvCalls = 0 /\ pc \in {"streaming", "closed", "panicked"})
        /\ ~C17_TookSse =>
             /\ pc \in {"recv", "returned", "panicked"}
             /\ lastPoll = "NotPolled"
             /\ events = <<>>
        /\ oairequest.stream = <<>> => ~C17_TookSse

C17_Witness ==
    /\ request # <<>>
    /\ oairequest.stream = <<>>
    /\ ~request[1].is_streaming
    /\ pc = "returned"
    /\ recvCalls = 1
    /\ consumed = 1

\* C18 (as stated): a poll of a closed and empty channel reports "not ready",
\* leaves the bridge active and emits nothing; and once the engine has
\* dropped its sender without having written a chunk whose choices are all
\* finished, no poll reports end-of-sequence and no poll emits an error
\* event.
C18_NoFinalWritten == \A i \in 1..Len(written) : ~FinalChunk(written[i])

C18_SenderGone == Streaming /\ ~txAlive /\ C18_NoFinalWritten

C18_IdlePoll ==
    (pc = "streaming" /\ ~is_done /\ chan.buf = <<>>) =>
        /\ lastPoll' \in {lastPoll, "Pending"}
        /\ ~is_done'
        /\ events' = events
        /\ log' = log
        /\ pc' \in {"streaming", "closed"}

C18_OriginalStep ==
    /\ C18_IdlePoll
    /\ C18_SenderGone =>
         /\ lastPoll' # "ReadyNone"
         /\ events' # events =>
              Head(chan.buf).kind \notin {"ModelError", "ValidationError", "InternalError"}

C18_NeverAnErrorEvent == [][C18_OriginalStep]_vars

\* C18 (amended): a poll of an empty channel, closed or not, reports "not
\* ready", leaves the bridge active, emits nothing and calls no hook; and
\* once the engine has dropped its sender without having written a chunk
\* whose choices are all finished, no poll reports end-of-sequence, the
\* bridge stays active, and every event emitted is the event of the message
\* at the head of the channel, none for the closure.
C18_AmendedStep ==
    /\ C18_IdlePoll
    /\ C18_SenderGone =>
         /\ lastPoll' # "ReadyNone"
         /\ ~is_done'
         /\ events' # events =>
              /\ chan.buf # <<>>
              /\ Len(events') = Len(events) + 1
              /\ events'[Len(events')].of = Head(chan.buf).id
              /\ consumed' = consumed + 1

C18_ClosureIsNotSignalled == [][C18_AmendedStep]_vars

C18_Witness ==
    /\ pc = "streaming"
    /\ C18_SenderGone
    /\ lastPoll = "Pending"
    /\ task = "runnable"
    /\ chan.buf = <<>>
    /\ Len(events) = 2
    /\ EmittedKind(2) = "ModelError"

\* C19: when poll_next reads a chunk that carries no choice, the chunk is
\* emitted and the bridge becomes done; after such a chunk was emitted no
\* further event is emitted and a poll reports end-of-sequence.
C19_EmptyChunk(m) == m.kind = "Chunk" /\ Len(m.choices) = 0

C19_EmptyChunkEmitted ==
    \E i \in 1..Len(events) : C19_EmptyChunk(written[events[i].of])

C19_Step ==
    /\ (pc = "streaming" /\ consumed' = consumed + 1 /\ C19_EmptyChunk(Head(chan.buf))) =>
         /\ events' = Append(events, [fmt |-> "json", of |-> Head(chan.buf).id])
         /\ is_done'
         /\ pc' = "streaming"
    /\ C19_EmptyChunkEmitted =>
         /\ is_done
         /\ events' = events
         /\ lastPoll' \in {lastPoll, "ReadyNone"}

C19_EmptyChunkIsFinal == [][C19_Step]_vars

C19_Witness ==
    /\ pc = "streaming"
    /\ Len(events) = 2
    /\ C19_EmptyChunk(written[2])
    /\ lastPoll = "ReadyNone"
    /\ consumed = 2

\* C20: when poll_next reads an InternalError it does not abort: it calls
\* the error hook once for it, emits its text as a data event, and leaves
\* is_done false.
C20_Step ==
    (pc = "streaming" /\ consumed' = consumed + 1 /\ Head(chan.buf).kind = "InternalError") =>
        /\ pc' = "streaming"
        /\ log' = Append(log, [hook |-> "error", src |-> "msg", of |-> Head(chan.buf).id])
        /\ events' = Append(events, [fmt |-> "text", of |-> Head(chan.buf).id])
        /\ is_done' = is_done
        /\ ~is_done'
        /\ lastPoll' = "ReadySome"

C20_InternalErrorKeepsActive == [][C20_Step]_vars

C20_Witness ==
    /\ pc = "streaming"
    /\ Len(events) = 2
    /\ EmittedKind(1) = "InternalError"
    /\ EmittedKind(2) = "InternalError"
    /\ ~is_done
    /\ lastPoll = "Pending"

====
